---- MODULE Spec2Model ----
(***************************************************************************)
(* A model of the in-memory filesystem of src/src/main.rs: the node store  *)
(* (nodes, counter, cwd), path resolution (split_path, find), the tree     *)
(* operations (mkdir, creat, rmdir, rm, cd, ls, pwd) and the snapshot      *)
(* codec (save, reload).  Strings are sequences of one-character strings,  *)
(* so that splitting, trimming, formatting and parsing are computed, not   *)
(* assumed.                                                                *)
(***************************************************************************)
EXTENDS Integers, Sequences, FiniteSets, TLC

VARIABLES
    nodes,      \* FileSystem.nodes: id -> [name, parent, kind, children]
    counter,    \* FileSystem.counter
    cwd,        \* FileSystem.cwd
    disk,       \* the backup file: None, or Some(its lines)
    op,         \* the last operation that ran
    arg,        \* its operand: None, or Some(path)
    result,     \* "Ok", the Err message it returned, or "panic"
    out         \* the set of lines it printed (ls: the names; pwd: the path)

vars == <<nodes, counter, cwd, disk, op, arg, result, out>>

store == <<nodes, counter, cwd>>

-----------------------------------------------------------------------------
(* Bounds *)

\* mkdir and creat are enabled while counter < MaxCounter
MaxCounter == 2

-----------------------------------------------------------------------------
(* Strings *)

\* Option<T>: None is the empty tuple, Some(x) the one-element tuple
None == <<>>
Some(x) == <<x>>
Unwrap(o) == o[1]

Ok == "Ok"
Panic == "panic"

Digits == <<"0", "1", "2", "3", "4", "5", "6", "7", "8", "9">>

\* char::is_whitespace, over the characters the model uses
WhiteSpace == {" "}

RECURSIVE TrimStart(_, _)
TrimStart(s, cs) ==
    IF s # <<>> /\ Head(s) \in cs THEN TrimStart(Tail(s), cs) ELSE s

RECURSIVE TrimEnd(_, _)
TrimEnd(s, cs) ==
    IF s # <<>> /\ s[Len(s)] \in cs THEN TrimEnd(SubSeq(s, 1, Len(s) - 1), cs) ELSE s

\* str::trim_matches
trim_matches(s, cs) == TrimEnd(TrimStart(s, cs), cs)

\* str::trim
trim(s) == trim_matches(s, WhiteSpace)

\* str::split(c): the pieces between occurrences of c, empty pieces included
RECURSIVE split(_, _)
split(s, c) ==
    IF \E i \in 1..Len(s) : s[i] = c
    THEN LET i == CHOOSE k \in 1..Len(s) : s[k] = c /\ \A j \in 1..(k - 1) : s[j] # c
         IN  <<SubSeq(s, 1, i - 1)>> \o split(SubSeq(s, i + 1, Len(s)), c)
    ELSE <<s>>

\* str::starts_with(c)
starts_with(s, c) == s # <<>> /\ Head(s) = c

\* usize's Display: the decimal digits of n
RECURSIVE to_string(_)
to_string(n) ==
    IF n < 10 THEN <<Digits[n + 1]>> ELSE to_string(n \div 10) \o <<Digits[(n % 10) + 1]>>

DigitValue(c) == CHOOSE d \in 0..9 : Digits[d + 1] = c

IsDigit(c) == \E d \in 0..9 : Digits[d + 1] = c

RECURSIVE ParseDigits(_, _)
ParseDigits(s, acc) ==
    IF s = <<>> THEN acc ELSE ParseDigits(Tail(s), acc * 10 + DigitValue(Head(s)))

\* str::parse::<usize>: a leading '+' is accepted, an empty or non-digit
\* string is an error
ParsesUsize(s) ==
    LET d == IF starts_with(s, "+") THEN Tail(s) ELSE s
    IN  d # <<>> /\ \A i \in 1..Len(d) : IsDigit(d[i])

parse_usize(s) == ParseDigits(IF starts_with(s, "+") THEN Tail(s) ELSE s, 0)

\* [T]::join(sep)
RECURSIVE join(_, _)
join(ss, sep) ==
    IF ss = <<>> THEN <<>>
    ELSE IF Len(ss) = 1 THEN ss[1]
    ELSE ss[1] \o sep \o join(Tail(ss), sep)

\* the function f with key k set to v (HashMap::insert)
Insert(f, k, v) == [x \in DOMAIN f \cup {k} |-> IF x = k THEN v ELSE f[x]]

\* the function f without key k (HashMap::remove)
Remove(f, k) == [x \in DOMAIN f \ {k} |-> f[x]]

EmptyMap == <<>>

-----------------------------------------------------------------------------
(* Nodes *)

new_file_node(name, parent) ==
    [name |-> name, parent |-> parent, kind |-> "FILE", children |-> EmptyMap]

new_dir_node(name, parent) ==
    [name |-> name, parent |-> parent, kind |-> "DIR", children |-> EmptyMap]

is_file_node(n) == n.kind = "FILE"

is_dir_node(n) == ~is_file_node(n)

\* fn split_path
split_path(path_name) ==
    SelectSeq(split(trim_matches(path_name, {"/"}), "/"), LAMBDA name : name # <<>>)

\* the start of a resolution: root for an absolute path, cwd otherwise
start_id(c, path_name) == IF starts_with(path_name, "/") THEN 0 ELSE c

FoundOk(id) == [res |-> Ok, id |-> id]
FoundErr(msg) == [res |-> msg, id |-> 0]

\* FileSystem::find: a File swallows a last segment and fails on an earlier one
RECURSIVE find(_, _, _)
find(ns, current_id, path) ==
    IF path = <<>> THEN FoundOk(current_id)
    ELSE IF current_id \notin DOMAIN ns THEN FoundErr(Panic)
    ELSE LET current_node == ns[current_id]
             name == Head(path)
         IN  IF current_node.kind = "DIR"
             THEN IF name \in DOMAIN current_node.children
                  THEN find(ns, current_node.children[name], Tail(path))
                  ELSE FoundErr("No such file or directory")
             ELSE IF Tail(path) # <<>>
                  THEN FoundErr("Not a directory")
                  ELSE find(ns, current_id, Tail(path))

-----------------------------------------------------------------------------
(* Tree operations: each yields the result and the store after the call *)

Ret(res, ns, ctr, c, o) ==
    [res |-> res, nodes |-> ns, counter |-> ctr, cwd |-> c, out |-> o]

Last(s) == s[Len(s)]
Front(s) == SubSeq(s, 1, Len(s) - 1)

\* mkdir, except that the new node records the start of the resolution as its
\* parent instead of the directory it was added to
mkdir_ParentIsStart(ns, ctr, c, path_name) ==
    LET path == split_path(path_name)
        fail(msg) == Ret(msg, ns, ctr, c, {})
    IN  IF path = <<>> THEN fail("missing path")
        ELSE LET dir_name == Last(path)
                 found == find(ns, start_id(c, path_name), Front(path))
                 target_id == found.id
             IN  IF found.res # Ok THEN fail(found.res)
                 ELSE IF target_id \notin DOMAIN ns THEN fail(Panic)
                 ELSE IF ns[target_id].kind = "FILE" THEN fail("Not a directory")
                 ELSE IF dir_name \in DOMAIN ns[target_id].children
                      THEN fail("Directory already exists")
                 ELSE LET new_node == new_dir_node(dir_name, start_id(c, path_name))
                          new_counter == ctr + 1
                          linked == [ns EXCEPT ![target_id].children =
                                        Insert(@, dir_name, new_counter)]
                      IN  Ret(Ok, Insert(linked, new_counter, new_node), new_counter, c, {})

\* mkdir, except that a name the directory already has is not turned away
mkdir_Overwrites(ns, ctr, c, path_name) ==
    LET path == split_path(path_name)
        fail(msg) == Ret(msg, ns, ctr, c, {})
    IN  IF path = <<>> THEN fail("missing path")
        ELSE LET dir_name == Last(path)
                 found == find(ns, start_id(c, path_name), Front(path))
                 target_id == found.id
             IN  IF found.res # Ok THEN fail(found.res)
                 ELSE IF target_id \notin DOMAIN ns THEN fail(Panic)
                 ELSE IF ns[target_id].kind = "FILE" THEN fail("Not a directory")
                 ELSE LET new_node == new_dir_node(dir_name, target_id)
                          new_counter == ctr + 1
                          linked == [ns EXCEPT ![target_id].children =
                                        Insert(@, dir_name, new_counter)]
                      IN  Ret(Ok, Insert(linked, new_counter, new_node), new_counter, c, {})

\* mkdir, except that the new directory is entered under the name of the
\* path's first segment
mkdir_FirstName(ns, ctr, c, path_name) ==
    LET path == split_path(path_name)
        fail(msg) == Ret(msg, ns, ctr, c, {})
    IN  IF path = <<>> THEN fail("missing path")
        ELSE LET dir_name == Head(path)
                 found == find(ns, start_id(c, path_name), Front(path))
                 target_id == found.id
             IN  IF found.res # Ok THEN fail(found.res)
                 ELSE IF target_id \notin DOMAIN ns THEN fail(Panic)
                 ELSE IF ns[target_id].kind = "FILE" THEN fail("Not a directory")
                 ELSE IF dir_name \in DOMAIN ns[target_id].children
                      THEN fail("Directory already exists")
                 ELSE LET new_node == new_dir_node(dir_name, target_id)
                          new_counter == ctr + 1
                          linked == [ns EXCEPT ![target_id].children =
                                        Insert(@, dir_name, new_counter)]
                      IN  Ret(Ok, Insert(linked, new_counter, new_node), new_counter, c, {})

\* mkdir, except that the counter is not advanced
mkdir_CounterKept(ns, ctr, c, path_name) ==
    LET path == split_path(path_name)
        fail(msg) == Ret(msg, ns, ctr, c, {})
    IN  IF path = <<>> THEN fail("missing path")
        ELSE LET dir_name == Last(path)
                 found == find(ns, start_id(c, path_name), Front(path))
                 target_id == found.id
             IN  IF found.res # Ok THEN fail(found.res)
                 ELSE IF target_id \notin DOMAIN ns THEN fail(Panic)
                 ELSE IF ns[target_id].kind = "FILE" THEN fail("Not a directory")
                 ELSE IF dir_name \in DOMAIN ns[target_id].children
                      THEN fail("Directory already exists")
                 ELSE LET new_node == new_dir_node(dir_name, target_id)
                          new_counter == ctr + 1
                          linked == [ns EXCEPT ![target_id].children =
                                        Insert(@, dir_name, new_counter)]
                      IN  Ret(Ok, Insert(linked, new_counter, new_node), ctr, c, {})

\* FileSystem::mkdir
mkdir(ns, ctr, c, path_name) ==
    LET path == split_path(path_name)
        fail(msg) == Ret(msg, ns, ctr, c, {})
    IN  IF path = <<>> THEN fail("missing path")
        ELSE LET dir_name == Last(path)
                 found == find(ns, start_id(c, path_name), Front(path))
                 target_id == found.id
             IN  IF found.res # Ok THEN fail(found.res)
                 ELSE IF target_id \notin DOMAIN ns THEN fail(Panic)
                 ELSE IF ns[target_id].kind = "FILE" THEN fail("Not a directory")
                 ELSE IF dir_name \in DOMAIN ns[target_id].children
                      THEN fail("Directory already exists")
                 ELSE LET new_node == new_dir_node(dir_name, target_id)
                          new_counter == ctr + 1
                          linked == [ns EXCEPT ![target_id].children =
                                        Insert(@, dir_name, new_counter)]
                      IN  Ret(Ok, Insert(linked, new_counter, new_node), new_counter, c, {})

\* creat, except that a File is taken for a directory without children
creat_IntoFile(ns, ctr, c, path_name) ==
    LET path == split_path(path_name)
        fail(msg) == Ret(msg, ns, ctr, c, {})
    IN  IF path = <<>> THEN fail("missing path")
        ELSE LET file_name == Last(path)
                 found == find(ns, start_id(c, path_name), Front(path))
                 target_id == found.id
             IN  IF found.res # Ok THEN fail(found.res)
                 ELSE IF target_id \notin DOMAIN ns THEN fail(Panic)
                 ELSE IF file_name \in DOMAIN ns[target_id].children
                      THEN fail("File already exists")
                 ELSE LET new_node == new_file_node(file_name, target_id)
                          new_counter == ctr + 1
                          linked == [ns EXCEPT ![target_id].children =
                                        Insert(@, file_name, new_counter)]
                      IN  Ret(Ok, Insert(linked, new_counter, new_node), new_counter, c, {})

\* creat that puts the node under the counter value it found
creat_SameId(ns, ctr, c, path_name) ==
    LET path == split_path(path_name)
        fail(msg) == Ret(msg, ns, ctr, c, {})
    IN  IF path = <<>> THEN fail("missing path")
        ELSE LET file_name == Last(path)
                 found == find(ns, start_id(c, path_name), Front(path))
                 target_id == found.id
             IN  IF found.res # Ok THEN fail(found.res)
                 ELSE IF target_id \notin DOMAIN ns THEN fail(Panic)
                 ELSE IF ns[target_id].kind = "FILE" THEN fail("Not a directory")
                 ELSE IF file_name \in DOMAIN ns[target_id].children
                      THEN fail("File already exists")
                 ELSE LET new_node == new_file_node(file_name, target_id)
                          linked == [ns EXCEPT ![target_id].children =
                                        Insert(@, file_name, ctr)]
                      IN  Ret(Ok, Insert(linked, ctr, new_node), ctr + 1, c, {})

\* FileSystem::creat
creat(ns, ctr, c, path_name) ==
    LET path == split_path(path_name)
        fail(msg) == Ret(msg, ns, ctr, c, {})
    IN  IF path = <<>> THEN fail("missing path")
        ELSE LET file_name == Last(path)
                 found == find(ns, start_id(c, path_name), Front(path))
                 target_id == found.id
             IN  IF found.res # Ok THEN fail(found.res)
                 ELSE IF target_id \notin DOMAIN ns THEN fail(Panic)
                 ELSE IF ns[target_id].kind = "FILE" THEN fail("Not a directory")
                 ELSE IF file_name \in DOMAIN ns[target_id].children
                      THEN fail("File already exists")
                 ELSE LET new_node == new_file_node(file_name, target_id)
                          new_counter == ctr + 1
                          linked == [ns EXCEPT ![target_id].children =
                                        Insert(@, file_name, new_counter)]
                      IN  Ret(Ok, Insert(linked, new_counter, new_node), new_counter, c, {})

\* the tail of rmdir and rm: the parent's entry under the target's name goes
Unlink(ns, target_id) ==
    LET parent_id == ns[target_id].parent
        target_name == ns[target_id].name
    IN  IF ns[parent_id].kind = "DIR"
        THEN [ns EXCEPT ![parent_id].children = Remove(@, target_name)]
        ELSE ns

\* FileSystem::rmdir
rmdir(ns, ctr, c, path_name) ==
    LET path == split_path(path_name)
        fail(msg) == Ret(msg, ns, ctr, c, {})
        found == find(ns, start_id(c, path_name), path)
        target_id == found.id
    IN  IF found.res # Ok THEN fail(found.res)
        ELSE IF target_id \notin DOMAIN ns THEN fail(Panic)
        ELSE IF ns[target_id].kind # "DIR" THEN fail("not a directory")
        ELSE IF DOMAIN ns[target_id].children # {} THEN fail("Directory not empty")
        ELSE IF ns[target_id].parent \notin DOMAIN ns THEN fail(Panic)
        ELSE Ret(Ok, Unlink(ns, target_id), ctr, c, {})

\* rm, except that the entry is removed before the target's kind is looked at
rm_UnlinkFirst(ns, ctr, c, path_name) ==
    LET path == split_path(path_name)
        fail(msg) == Ret(msg, ns, ctr, c, {})
        found == find(ns, start_id(c, path_name), path)
        target_id == found.id
    IN  IF found.res # Ok THEN fail(found.res)
        ELSE IF target_id \notin DOMAIN ns THEN fail(Panic)
        ELSE IF ns[target_id].parent \notin DOMAIN ns THEN fail(Panic)
        ELSE IF is_dir_node(ns[target_id])
             THEN Ret("not a file", Unlink(ns, target_id), ctr, c, {})
        ELSE Ret(Ok, Unlink(ns, target_id), ctr, c, {})

\* FileSystem::rm
rm(ns, ctr, c, path_name) ==
    LET path == split_path(path_name)
        fail(msg) == Ret(msg, ns, ctr, c, {})
        found == find(ns, start_id(c, path_name), path)
        target_id == found.id
    IN  IF found.res # Ok THEN fail(found.res)
        ELSE IF target_id \notin DOMAIN ns THEN fail(Panic)
        ELSE IF is_dir_node(ns[target_id]) THEN fail("not a file")
        ELSE IF ns[target_id].parent \notin DOMAIN ns THEN fail(Panic)
        ELSE Ret(Ok, Unlink(ns, target_id), ctr, c, {})

\* FileSystem::cd
cd_IntoFile(ns, ctr, c, path) ==
    LET fail(msg) == Ret(msg, ns, ctr, c, {})
    IN  IF path = None THEN Ret(Ok, ns, ctr, 0, {})
        ELSE LET found == find(ns, start_id(c, Unwrap(path)), split_path(Unwrap(path)))
                 target_id == found.id
             IN  IF found.res # Ok THEN fail(found.res)
                 ELSE IF target_id \notin DOMAIN ns THEN fail(Panic)
                 ELSE Ret(Ok, ns, ctr, target_id, {})

cd(ns, ctr, c, path) ==
    LET fail(msg) == Ret(msg, ns, ctr, c, {})
    IN  IF path = None THEN Ret(Ok, ns, ctr, 0, {})
        ELSE LET found == find(ns, start_id(c, Unwrap(path)), split_path(Unwrap(path)))
                 target_id == found.id
             IN  IF found.res # Ok THEN fail(found.res)
                 ELSE IF target_id \notin DOMAIN ns THEN fail(Panic)
                 ELSE IF ns[target_id].kind = "FILE" THEN fail("not a directory")
                 ELSE Ret(Ok, ns, ctr, target_id, {})

\* ls that lists root when it has no operand
ls_OfRoot(ns, ctr, c, path) ==
    LET fail(msg) == Ret(msg, ns, ctr, c, {})
        found == IF path = None THEN FoundOk(0)
                 ELSE find(ns, start_id(c, Unwrap(path)), split_path(Unwrap(path)))
        target_id == found.id
    IN  IF found.res # Ok THEN fail(found.res)
        ELSE IF target_id \notin DOMAIN ns THEN fail(Panic)
        ELSE IF ns[target_id].kind = "FILE" THEN fail("not a directory")
        ELSE Ret(Ok, ns, ctr, c, DOMAIN ns[target_id].children)

\* FileSystem::ls: the printed names, as a set (the order is the map's)
ls(ns, ctr, c, path) ==
    LET fail(msg) == Ret(msg, ns, ctr, c, {})
        found == IF path = None THEN FoundOk(c)
                 ELSE find(ns, start_id(c, Unwrap(path)), split_path(Unwrap(path)))
        target_id == found.id
    IN  IF found.res # Ok THEN fail(found.res)
        ELSE IF target_id \notin DOMAIN ns THEN fail(Panic)
        ELSE IF ns[target_id].kind = "FILE" THEN fail("not a directory")
        ELSE Ret(Ok, ns, ctr, c, DOMAIN ns[target_id].children)

\* the loop of pwd: the names of the ancestors below root, nearest first;
\* fuel runs out only on a parent chain that never reaches 0
RECURSIVE pwd_walk(_, _, _)
pwd_walk(ns, id, fuel) ==
    IF ns[id].parent = 0 THEN [res |-> Ok, names |-> <<>>]
    ELSE IF ns[id].parent \notin DOMAIN ns THEN [res |-> Panic, names |-> <<>>]
    ELSE IF fuel = 0 THEN [res |-> "hang", names |-> <<>>]
    ELSE LET up == pwd_walk(ns, ns[id].parent, fuel - 1)
         IN  [res |-> up.res, names |-> <<ns[ns[id].parent].name>> \o up.names]

Reverse(s) == [i \in 1..Len(s) |-> s[Len(s) + 1 - i]]

\* FileSystem::pwd
pwd(ns, ctr, c) ==
    IF c \notin DOMAIN ns THEN Ret(Panic, ns, ctr, c, {})
    ELSE LET first == IF ns[c].name # <<"/">> THEN <<ns[c].name>> ELSE <<>>
             walk == pwd_walk(ns, c, Cardinality(DOMAIN ns))
             cwd_vec == Reverse(first \o walk.names)
         IN  IF walk.res # Ok THEN Ret(walk.res, ns, ctr, c, {})
             ELSE Ret(Ok, ns, ctr, c, {<<"/">> \o join(cwd_vec, <<"/">>)})

-----------------------------------------------------------------------------
(* Snapshot codec *)

SP == <<" ">>

\* the ids of set S as a sequence, in ascending order
RECURSIVE Ascending(_)
Ascending(S) ==
    IF S = {} THEN <<>>
    ELSE LET m == CHOOSE x \in S : \A y \in S : x <= y
         IN  <<m>> \o Ascending(S \ {m})

\* the orders in which a map over S may be iterated
Orders(S) ==
    {o \in [1..Cardinality(S) -> S] : \A i, j \in 1..Cardinality(S) : o[i] = o[j] => i = j}

\* the ids that some directory of ns lists as a child
Kids(ns) ==
    UNION {{ns[d].children[n] : n \in DOMAIN ns[d].children} : d \in DOMAIN ns}

\* the elements of sequence o that lie in S, in o's order
Within(o, S) == SelectSeq(o, LAMBDA x : x \in S)

\* the index line of node id: "<id> <name>"
IndexLine(ns, id) == to_string(id) \o SP \o ns[id].name

\* the body line of node id; a directory's child ids come in the order
\* `order` gives them, and an empty list still leaves the separating space
BodyLine(ns, id, order) ==
    IF ns[id].kind = "DIR"
    THEN LET kids == Within(order, {ns[id].children[n] : n \in DOMAIN ns[id].children})
         IN  <<"D">> \o SP \o to_string(id) \o SP \o to_string(ns[id].parent) \o SP
                 \o join([i \in 1..Len(kids) |-> to_string(kids[i])], <<",">>)
    ELSE <<"F">> \o SP \o to_string(id) \o SP \o to_string(ns[id].parent)

\* FileSystem::save: the lines written.  The index and the body lines come in
\* ascending id order, one of the orders self.nodes may be iterated in (reload
\* files both under the id, and the ids of one store are distinct); `order` is
\* the order in which every children map yields its ids.
save(ns, ctr, order) ==
    LET ids == Ascending(DOMAIN ns)
    IN  <<to_string(ctr) \o SP \o to_string(Cardinality(DOMAIN ns))>>
            \o [i \in 1..Len(ids) |-> IndexLine(ns, ids[i])]
            \o [i \in 1..Len(ids) |-> BodyLine(ns, ids[i], order)]

\* BufRead::read_line for line k: past the end it reads nothing
read_line(lines, k) == IF k \in 1..Len(lines) THEN lines[k] ELSE <<>>

\* the tokens of a line: buffer.trim().split(' ')
Tokens(line) == split(trim(line), " ")

ErrNumbers == "Error parsing the backup: not two numbers for index"
ErrRebuild == "Error rebuilding the backup"

\* reload's first loop over lines from..to: the id -> name table.  A line
\* that is not two tokens is passed over.
RECURSIVE read_index(_, _, _, _)
read_index(lines, from, to, index) ==
    IF from > to THEN [res |-> Ok, index |-> index]
    ELSE LET t == Tokens(read_line(lines, from))
         IN  IF Len(t) = 2
             THEN IF ~ParsesUsize(t[1]) THEN [res |-> ErrNumbers, index |-> index]
                  ELSE read_index(lines, from + 1, to, Insert(index, parse_usize(t[1]), t[2]))
             ELSE read_index(lines, from + 1, to, index)

\* the children map of a "D id parent children" line: each id of the list
\* under its name from the index, a later id replacing an earlier one of the
\* same name
RECURSIVE read_children(_, _, _)
read_children(ids, index, children) ==
    IF ids = <<>> THEN [res |-> Ok, children |-> children]
    ELSE IF ~ParsesUsize(Head(ids)) THEN [res |-> ErrNumbers, children |-> children]
    ELSE LET i == parse_usize(Head(ids))
         IN  IF i \notin DOMAIN index THEN [res |-> ErrNumbers, children |-> children]
             ELSE read_children(Tail(ids), index, Insert(children, index[i], i))

\* read_node that takes the id of the line for the parent
read_node_ParentSelf(t, index) ==
    LET shape == IF Len(t) = 4 /\ t[1] = <<"D">> THEN "Dc"
                 ELSE IF Len(t) = 3 /\ t[1] = <<"D">> THEN "D"
                 ELSE IF Len(t) = 3 /\ t[1] = <<"F">> THEN "F"
                 ELSE "none"
        bad(msg) == [res |-> msg, id |-> 0, node |-> new_file_node(<<>>, 0)]
    IN  IF shape = "none" THEN bad(ErrRebuild)
        ELSE IF ~ParsesUsize(t[2]) THEN bad(ErrNumbers)
        ELSE IF parse_usize(t[2]) \notin DOMAIN index THEN bad(ErrRebuild)
        ELSE IF ~ParsesUsize(t[3]) THEN bad(ErrNumbers)
        ELSE LET id == parse_usize(t[2])
                 name == index[id]
                 kids == IF shape = "Dc" THEN read_children(split(t[4], ","), index, EmptyMap)
                         ELSE [res |-> Ok, children |-> EmptyMap]
             IN  IF kids.res # Ok THEN bad(kids.res)
                 ELSE [res |-> Ok, id |-> id,
                       node |-> [name |-> name, parent |-> id,
                                 kind |-> IF shape = "F" THEN "FILE" ELSE "DIR",
                                 children |-> kids.children]]

\* one body line: the node it describes, or the error
read_node(t, index) ==
    LET shape == IF Len(t) = 4 /\ t[1] = <<"D">> THEN "Dc"
                 ELSE IF Len(t) = 3 /\ t[1] = <<"D">> THEN "D"
                 ELSE IF Len(t) = 3 /\ t[1] = <<"F">> THEN "F"
                 ELSE "none"
        bad(msg) == [res |-> msg, id |-> 0, node |-> new_file_node(<<>>, 0)]
    IN  IF shape = "none" THEN bad(ErrRebuild)
        ELSE IF ~ParsesUsize(t[2]) THEN bad(ErrNumbers)
        ELSE IF parse_usize(t[2]) \notin DOMAIN index THEN bad(ErrRebuild)
        ELSE IF ~ParsesUsize(t[3]) THEN bad(ErrNumbers)
        ELSE LET id == parse_usize(t[2])
                 name == index[id]
                 parent == parse_usize(t[3])
                 kids == IF shape = "Dc" THEN read_children(split(t[4], ","), index, EmptyMap)
                         ELSE [res |-> Ok, children |-> EmptyMap]
             IN  IF kids.res # Ok THEN bad(kids.res)
                 ELSE [res |-> Ok, id |-> id,
                       node |-> [name |-> name, parent |-> parent,
                                 kind |-> IF shape = "F" THEN "FILE" ELSE "DIR",
                                 children |-> kids.children]]

\* reload's second loop over lines from..to: the node map
RECURSIVE read_nodes(_, _, _, _, _)
read_nodes(lines, from, to, index, built) ==
    IF from > to THEN [res |-> Ok, nodes |-> built]
    ELSE LET n == read_node(Tokens(read_line(lines, from)), index)
         IN  IF n.res # Ok THEN [res |-> n.res, nodes |-> built]
             ELSE read_nodes(lines, from + 1, to, index, Insert(built, n.id, n.node))

\* reload, except that cwd is reset before the file is read
reload_ResetFirst(ns, ctr, c, file) ==
    LET fail(msg) == Ret(msg, ns, ctr, 0, {})
    IN  IF file = None THEN fail("Error opening the backup file")
        ELSE LET lines == Unwrap(file)
                 h == Tokens(read_line(lines, 1))
             IN  IF Len(h) # 2
                 THEN fail("Error parsing the backup: not two number on first line")
                 ELSE IF ~ParsesUsize(h[1])
                 THEN fail("Error parsing the backup: error reading counter")
                 ELSE IF ~ParsesUsize(h[2])
                 THEN fail("Error parsing the backup: error reading total_nodes")
                 ELSE LET new_counter == parse_usize(h[1])
                          total_nodes == parse_usize(h[2])
                          idx == read_index(lines, 2, 1 + total_nodes, EmptyMap)
                          body == read_nodes(lines, 2 + total_nodes, 1 + 2 * total_nodes,
                                             idx.index, EmptyMap)
                      IN  IF idx.res # Ok THEN fail(idx.res)
                          ELSE IF body.res # Ok THEN fail(body.res)
                          ELSE Ret(Ok, body.nodes, new_counter, 0, {})

\* FileSystem::reload: the store is assigned only after every line is read
reload(ns, ctr, c, file) ==
    LET fail(msg) == Ret(msg, ns, ctr, c, {})
    IN  IF file = None THEN fail("Error opening the backup file")
        ELSE LET lines == Unwrap(file)
                 h == Tokens(read_line(lines, 1))
             IN  IF Len(h) # 2
                 THEN fail("Error parsing the backup: not two number on first line")
                 ELSE IF ~ParsesUsize(h[1])
                 THEN fail("Error parsing the backup: error reading counter")
                 ELSE IF ~ParsesUsize(h[2])
                 THEN fail("Error parsing the backup: error reading total_nodes")
                 ELSE LET new_counter == parse_usize(h[1])
                          total_nodes == parse_usize(h[2])
                          idx == read_index(lines, 2, 1 + total_nodes, EmptyMap)
                          body == read_nodes(lines, 2 + total_nodes, 1 + 2 * total_nodes,
                                             idx.index, EmptyMap)
                      IN  IF idx.res # Ok THEN fail(idx.res)
                          ELSE IF body.res # Ok THEN fail(body.res)
                          ELSE Ret(Ok, body.nodes, new_counter, 0, {})

-----------------------------------------------------------------------------
(* Inputs *)

\* the path operands the operations are called with
Paths ==
    { <<>>,                           \* ""
      <<"/">>,                        \* "/"
      <<"/", "/">>,                   \* "//"
      <<"a">>,                        \* "a"
      <<"/", "a">>,                   \* "/a"
      <<"/", "a", "/", "b">>,         \* "/a/b"
      <<"a", " ", "b">> }             \* "a b"

\* the path operands of the runs that save and reload
SnapPaths ==
    { <<"/", "a">>,                   \* "/a"
      <<"/", "a", "/", "b">>,         \* "/a/b"
      <<"a", " ", "b">> }             \* "a b"

\* the path operands of the runs that go below a File
DeepPaths ==
    { <<"/", "a">>,                               \* "/a"
      <<"/", "a", "/", "b">>,                     \* "/a/b"
      <<"/", "a", "/", "b", "/", "a">>,           \* "/a/b/a"
      <<"/", "a", "/", "b", "/", "a", "/", "b">> }    \* "/a/b/a/b"

\* the names and path operands of the run through /home
HomeName == <<"h", "o", "m", "e">>
NotesName == <<"n", "o", "t", "e", "s", ".", "t", "x", "t">>
DocsName == <<"d", "o", "c", "s">>
HomePath == <<"/">> \o HomeName                       \* "/home"
DocsPath == HomePath \o <<"/">> \o DocsName           \* "/home/docs"

\* the nodes the run through /home may create
HomeNodes == 3

\* an optional path operand
Opt(P) == {None} \cup {Some(p) : p \in P}

\* backup files written by something other than save
AbcFile == << <<"a", "b", "c", " ", "2">> >>     \* "abc 2"

ForeignFiles ==
    { AbcFile,
      << <<"0", " ", "0">> >>,                    \* "0 0"
      << <<"1", " ", "2">>,                       \* "1 2"
         <<"0", " ", "/">>,                       \* "0 /"
         <<"1", " ", "a">>,                       \* "1 a"
         <<"D", " ", "0", " ", "0", " ", "1">> >> }   \* "D 0 0 1", and no more

-----------------------------------------------------------------------------
(* The program: one action per command the loop of main dispatches *)

Running == result \notin {Panic, "hang"}

\* the store and the record of the call after an operation returned r
Returned(name, a, r) ==
    /\ nodes' = r.nodes
    /\ counter' = r.counter
    /\ cwd' = r.cwd
    /\ op' = name
    /\ arg' = a
    /\ result' = r.res
    /\ out' = r.out

\* FileSystem::new
Init ==
    /\ nodes = (0 :> new_dir_node(<<"/">>, 0))
    /\ counter = 0
    /\ cwd = 0
    /\ disk = None
    /\ op = "new"
    /\ arg = None
    /\ result = Ok
    /\ out = {}

\* mkdir, while fewer than cap nodes were created
MkdirBelow(p, cap) ==
    LET r == mkdir(nodes, counter, cwd, p)
    IN  /\ Running
        /\ r.res = Ok => counter < cap
        /\ Returned("mkdir", Some(p), r)
        /\ UNCHANGED disk

Mkdir(p) == MkdirBelow(p, MaxCounter)

\* creat, while fewer than cap nodes were created
CreatBelow(p, cap) ==
    LET r == creat(nodes, counter, cwd, p)
    IN  /\ Running
        /\ r.res = Ok => counter < cap
        /\ Returned("creat", Some(p), r)
        /\ UNCHANGED disk

Creat(p) == CreatBelow(p, MaxCounter)

\* rmdir without the check of parse_command
Rmdir_Unchecked(p) ==
    /\ Running
    /\ Returned("rmdir", Some(p), rmdir(nodes, counter, cwd, p))
    /\ UNCHANGED disk

\* parse_command turns away the operand "/" before rmdir is called
Rmdir(p) ==
    LET r == IF p = <<"/">>
             THEN Ret("cannot remove root directory", nodes, counter, cwd, {})
             ELSE rmdir(nodes, counter, cwd, p)
    IN  /\ Running
        /\ Returned("rmdir", Some(p), r)
        /\ UNCHANGED disk

Rm(p) ==
    /\ Running
    /\ Returned("rm", Some(p), rm(nodes, counter, cwd, p))
    /\ UNCHANGED disk

Cd(a) ==
    /\ Running
    /\ Returned("cd", a, cd(nodes, counter, cwd, a))
    /\ UNCHANGED disk

Ls(a) ==
    /\ Running
    /\ Returned("ls", a, ls(nodes, counter, cwd, a))
    /\ UNCHANGED disk

Pwd ==
    /\ Running
    /\ Returned("pwd", None, pwd(nodes, counter, cwd))
    /\ UNCHANGED disk

Save ==
    /\ Running
    /\ \E order \in Orders(Kids(nodes)) : disk' = Some(save(nodes, counter, order))
    /\ op' = "save"
    /\ arg' = None
    /\ result' = Ok
    /\ out' = {}
    /\ UNCHANGED store

Reload ==
    /\ Running
    /\ Returned("reload", None, reload(nodes, counter, cwd, disk))
    /\ UNCHANGED disk

\* the backup file is replaced from outside the program
WriteFile(f) ==
    /\ Running
    /\ disk' = Some(f)
    /\ UNCHANGED <<store, op, arg, result, out>>

\* the commands that change the tree or the current directory
Mutate(P) ==
    \/ \E p \in P : Mkdir(p)
    \/ \E p \in P : Creat(p)
    \/ \E p \in P : Rmdir(p)
    \/ \E p \in P : Rm(p)
    \/ \E a \in Opt(P) : Cd(a)

\* the commands that only print
Show(P) ==
    \/ \E a \in Opt(P) : Ls(a)
    \/ Pwd

NextOps == Mutate(Paths) \/ Show(Paths)

NextOwn == Mutate(SnapPaths) \/ Save \/ Reload

Next == Mutate(SnapPaths) \/ Save \/ Reload \/ \E f \in ForeignFiles : WriteFile(f)

NextDeep == Mutate(DeepPaths)

\* the commands of the run through /home, in any order and any number of times
NextHome ==
    \/ \E p \in {HomePath, DocsPath} : MkdirBelow(p, HomeNodes)
    \/ CreatBelow(NotesName, HomeNodes)
    \/ Rmdir(DocsPath)
    \/ Rm(NotesName)
    \/ Cd(Some(HomePath))
    \/ Ls(None)
    \/ Pwd

\* the tree operations alone
SpecOps == Init /\ [][NextOps]_vars

\* the tree operations and the snapshots the program itself writes
SpecOwn == Init /\ [][NextOwn]_vars

\* the same, with backup files from elsewhere
Spec == Init /\ [][Next]_vars

\* the mutating operations on paths of up to four segments
SpecDeep == Init /\ [][NextDeep]_vars

\* the commands of the run through /home
SpecHome == Init /\ [][NextHome]_vars

-----------------------------------------------------------------------------
(* What the properties speak of *)

IsDir(ns, id) == id \in DOMAIN ns /\ ns[id].kind = "DIR"

\* the entries of all child mappings: <<directory, name, child>>
Entries(ns) ==
    UNION {{<<d, n, ns[d].children[n]>> : n \in DOMAIN ns[d].children} : d \in DOMAIN ns}

\* the <<full path, kind>> pairs of the nodes at and below id
RECURSIVE Below(_, _, _, _)
Below(ns, id, prefix, fuel) ==
    IF id \notin DOMAIN ns \/ fuel = 0 THEN {}
    ELSE {<<prefix, ns[id].kind>>} \cup
         UNION {Below(ns, ns[id].children[n], Append(prefix, n), fuel - 1) :
                    n \in DOMAIN ns[id].children}

\* the <<full path from root, kind>> pairs of a store
PathKinds(ns) == Below(ns, 0, <<>>, Cardinality(DOMAIN ns))

HasSpace(name) == \E i \in 1..Len(name) : name[i] = " "

TreeOps == {"mkdir", "creat", "rmdir", "rm", "cd", "ls"}

-----------------------------------------------------------------------------
(* C1 *)

\* C1: a reload that directly follows a save succeeds, keeps the set of
\* <<path from root, kind>> pairs and the counter, and leaves cwd at root.
C1_RoundTrip ==
    [][(op = "save" /\ op' = "reload")
          => /\ result' = Ok
             /\ PathKinds(nodes') = PathKinds(nodes)
             /\ counter' = counter
             /\ cwd' = 0]_vars

-----------------------------------------------------------------------------
(* C2 *)

\* C2: a step of mkdir, creat, rmdir, rm, cd or ls that returns a failure
\* leaves nodes (every child mapping with them), counter and cwd as they were.
C2_FailureKeepsStore ==
    [][(op' \in TreeOps /\ result' # Ok) => store' = store]_vars

\* rmdir has just refused a directory that has children
C2_Witness ==
    /\ op = "rmdir"
    /\ result = "Directory not empty"
    /\ cwd # 0

-----------------------------------------------------------------------------
(* C3 *)

\* C3: a reload that fails leaves nodes, counter and cwd as they were, and a
\* file whose first line is "abc 2" makes reload fail on the header.
C3_FailedReloadKeepsStore ==
    [][(op' = "reload" /\ disk' = disk)
          => /\ result' # Ok => store' = store
             /\ disk = Some(AbcFile)
                   => result' = "Error parsing the backup: error reading counter"]_vars

\* reload has just failed on the "abc 2" header, away from the initial store
C3_Witness ==
    /\ op = "reload"
    /\ disk = Some(AbcFile)
    /\ result = "Error parsing the backup: error reading counter"
    /\ cwd # 0
    /\ counter > 0

-----------------------------------------------------------------------------
(* C4 *)

\* node id hangs under its parent: the parent is a Directory of the store
\* whose child mapping has id under id's name
Attached(ns, id) ==
    /\ IsDir(ns, ns[id].parent)
    /\ ns[id].name \in DOMAIN ns[ns[id].parent].children
    /\ ns[ns[id].parent].children[ns[id].name] = id

\* the ids some child mapping of the store lists
Listed(ns) == {e[3] : e \in Entries(ns)}

\* C4, as claimed: every non-root node of the store hangs under its parent.
C4_EveryNodeAttached ==
    \A id \in DOMAIN nodes \ {0} : Attached(nodes, id)

\* C4, amended: every non-root node that some child mapping lists hangs under
\* its parent (a node that rm or rmdir took out of its parent's mapping stays
\* in the store).
C4_ListedNodesAttached ==
    \A id \in Listed(nodes) \ {0} : id \in DOMAIN nodes /\ Attached(nodes, id)

\* a removal has left one node unlisted while another is still listed
C4_Witness ==
    /\ op \in {"rm", "rmdir"}
    /\ result = Ok
    /\ DOMAIN nodes \ (Listed(nodes) \cup {0}) # {}
    /\ Listed(nodes) # {}

-----------------------------------------------------------------------------
(* C5 *)

\* C5: cwd is the id of a Directory of the store.
C5_CwdIsDirectory == IsDir(nodes, cwd)

-----------------------------------------------------------------------------
(* C6 *)

\* the ids whose node the step added or replaced
Assigned == {id \in DOMAIN nodes' : id \notin DOMAIN nodes \/ nodes'[id].name # nodes[id].name
                                        \/ nodes'[id].kind # nodes[id].kind}

\* the step keeps the counter from falling, and a node it creates gets the
\* new counter value, above every id handed out before
Monotone ==
    /\ counter' >= counter
    /\ (op' \in {"mkdir", "creat"} /\ result' = Ok)
          => /\ counter' > counter
             /\ Assigned = {counter'}
             /\ counter' \notin DOMAIN nodes

\* C6, as claimed: every step of mkdir, creat, rmdir, rm, cd, save and reload
\* is monotone.
C6_NeverReused == [][Monotone]_vars

\* C6, amended: every step but a successful reload is monotone; a successful
\* reload sets the counter to the first number of the file's header.
C6_NeverReusedBetweenReloads ==
    [][IF op' = "reload" /\ disk' = disk /\ result' = Ok
       THEN counter' = parse_usize(Tokens(read_line(Unwrap(disk), 1))[1])
       ELSE Monotone]_vars

\* a node has just been created after a removal and a save
C6_Witness ==
    /\ op \in {"mkdir", "creat"}
    /\ result = Ok
    /\ disk # None
    /\ DOMAIN nodes \ (Listed(nodes) \cup {0}) # {}

-----------------------------------------------------------------------------
(* C7 *)

\* the node a path operand resolves to, as the operations resolve it
Resolve(ns, c, p) == find(ns, start_id(c, p), split_path(p))

\* C7: a successful rmdir removes exactly one entry of the child mappings, the
\* one under the target's parent that maps to the target, and adds none.
C7_RmdirRemovesTargetEntry ==
    [][(op' = "rmdir" /\ result' = Ok)
          => LET target == Resolve(nodes, cwd, Unwrap(arg')).id
             IN  /\ Entries(nodes') \subseteq Entries(nodes)
                 /\ Entries(nodes) \ Entries(nodes')
                       = {<<nodes[target].parent, nodes[target].name, target>>}]_vars

-----------------------------------------------------------------------------
(* C8 *)

\* resolution in which every segment is looked up as a child name
RECURSIVE Lookup(_, _, _)
Lookup(ns, id, path) ==
    IF path = <<>> THEN FoundOk(id)
    ELSE IF ~IsDir(ns, id) THEN FoundErr("Not a directory")
    ELSE IF Head(path) \notin DOMAIN ns[id].children THEN FoundErr("No such file or directory")
    ELSE Lookup(ns, ns[id].children[Head(path)], Tail(path))

\* C8: rm succeeds only on a path whose segments, each looked up as a child
\* name, lead to a File, and it removes exactly the entry of the last segment.
C8_RmConsumesEverySegment ==
    [][(op' = "rm" /\ result' = Ok)
          => LET p == Unwrap(arg')
                 path == split_path(p)
                 dir == Lookup(nodes, start_id(cwd, p), Front(path))
                 file == Lookup(nodes, start_id(cwd, p), path)
             IN  /\ path # <<>>
                 /\ file.res = Ok
                 /\ nodes[file.id].kind = "FILE"
                 /\ Entries(nodes) \ Entries(nodes') = {<<dir.id, Last(path), file.id>>}
                 /\ Entries(nodes') \subseteq Entries(nodes)]_vars

-----------------------------------------------------------------------------
(* C9 *)

\* C9: right after a successful mkdir its path resolves, from root or from
\* the unchanged cwd, to a Directory whose id is the new counter value.
C9_MkdirThenResolve ==
    (op = "mkdir" /\ result = Ok)
        => LET found == Resolve(nodes, cwd, Unwrap(arg))
           IN  /\ found.res = Ok
               /\ found.id = counter
               /\ IsDir(nodes, counter)
               /\ DOMAIN nodes[counter].children = {}

\* mkdir has just made a directory below another one, through a relative path
C9_Witness ==
    /\ op = "mkdir"
    /\ result = Ok
    /\ cwd # 0
    /\ ~starts_with(Unwrap(arg), "/")
    /\ nodes[counter].parent = cwd

-----------------------------------------------------------------------------
(* C10 *)

\* the final name of path operand p is a child of the directory its other
\* segments resolve to
NameTaken(ns, c, p) ==
    LET path == split_path(p)
        dir == find(ns, start_id(c, p), Front(path))
    IN  /\ path # <<>>
        /\ dir.res = Ok
        /\ IsDir(ns, dir.id)
        /\ Last(path) \in DOMAIN ns[dir.id].children

\* C10: mkdir and creat on a path whose final name is taken fail with their
\* already-exists error and leave nodes, counter and cwd as they were.
C10_TakenNameRefused ==
    [][(op' \in {"mkdir", "creat"} /\ NameTaken(nodes, cwd, Unwrap(arg')))
          => /\ result' = (IF op' = "mkdir" THEN "Directory already exists"
                           ELSE "File already exists")
             /\ store' = store]_vars

\* mkdir has just been refused on a path it had created before
C10_Witness ==
    /\ op = "mkdir"
    /\ result = "Directory already exists"
    /\ Resolve(nodes, cwd, Unwrap(arg)).res = Ok
    /\ IsDir(nodes, Resolve(nodes, cwd, Unwrap(arg)).id)

-----------------------------------------------------------------------------
(* C11 *)

\* C11: rmdir on a path that resolves to a directory with children fails with
\* "Directory not empty" and leaves the store as it was; once the directory has
\* no child left, rmdir on the path succeeds and the path resolves no more.
C11_RmdirOnceEmpty ==
    [][(op' = "rmdir" /\ arg' # Some(<<"/">>)
            /\ Resolve(nodes, cwd, Unwrap(arg')).res = Ok
            /\ IsDir(nodes, Resolve(nodes, cwd, Unwrap(arg')).id))
          => IF DOMAIN nodes[Resolve(nodes, cwd, Unwrap(arg')).id].children # {}
             THEN result' = "Directory not empty" /\ store' = store
             ELSE result' = Ok /\ Resolve(nodes', cwd', Unwrap(arg')).res # Ok]_vars

-----------------------------------------------------------------------------
(* C12 *)

\* looking the segments of path up from id, one child name after the other,
\* comes to a File, at the end of the path or before it
RECURSIVE HitsFile(_, _, _)
HitsFile(ns, id, path) ==
    IF id \notin DOMAIN ns THEN FALSE
    ELSE IF ns[id].kind = "FILE" THEN TRUE
    ELSE IF path = <<>> THEN FALSE
    ELSE IF Head(path) \notin DOMAIN ns[id].children THEN FALSE
    ELSE HitsFile(ns, ns[id].children[Head(path)], Tail(path))

\* C12: mkdir and creat on a path whose parent segments come to a File fail
\* with "Not a directory" and leave the store as it was, however many the
\* parent segments are.
C12_ParentIsFile ==
    [][(op' \in {"mkdir", "creat"}
            /\ split_path(Unwrap(arg')) # <<>>
            /\ HitsFile(nodes, start_id(cwd, Unwrap(arg')), Front(split_path(Unwrap(arg')))))
          => result' = "Not a directory" /\ store' = store]_vars

\* creat has just been refused on a path of four segments whose first is a File
C12_Witness ==
    /\ op = "creat"
    /\ result = "Not a directory"
    /\ Len(split_path(Unwrap(arg))) = 4
    /\ Resolve(nodes, 0, <<"/", "a">>).res = Ok
    /\ nodes[Resolve(nodes, 0, <<"/", "a">>).id].kind = "FILE"

-----------------------------------------------------------------------------
(* C13 *)

\* some segment of the path has a space in it
SpaceInPath(path) == \E i \in 1..Len(path) : HasSpace(path[i])

\* C13: when the store holds a node whose name has a space, a reload that
\* directly follows a save succeeds, and every such node that had a path from
\* root has the same path and kind afterwards.
C13_SpaceNameKept ==
    [][(op = "save" /\ op' = "reload" /\ \E id \in DOMAIN nodes : HasSpace(nodes[id].name))
          => /\ result' = Ok
             /\ \A pk \in PathKinds(nodes) : SpaceInPath(pk[1]) => pk \in PathKinds(nodes')]_vars

-----------------------------------------------------------------------------
(* C14 *)

\* an index line that is not two tokens, or whose first token is no number
MalformedIndexLine(line) ==
    Len(Tokens(line)) # 2 \/ ~ParsesUsize(Tokens(line)[1])

\* the header of the file gives two numbers
HeaderParses(lines) ==
    /\ Len(Tokens(read_line(lines, 1))) = 2
    /\ ParsesUsize(Tokens(read_line(lines, 1))[1])
    /\ ParsesUsize(Tokens(read_line(lines, 1))[2])

\* the number of nodes the header announces
TotalNodes(lines) == parse_usize(Tokens(read_line(lines, 1))[2])

\* C14: when one of the index lines the header announces is malformed, reload
\* fails while it reads the index, with the error of that phase.
C14_MalformedIndexLineFails ==
    [][(op' = "reload" /\ disk' = disk /\ disk # None
            /\ HeaderParses(Unwrap(disk))
            /\ \E k \in 2..(1 + TotalNodes(Unwrap(disk))) :
                   MalformedIndexLine(read_line(Unwrap(disk), k)))
          => /\ read_index(Unwrap(disk), 2, 1 + TotalNodes(Unwrap(disk)), EmptyMap).res # Ok
             /\ result' = ErrNumbers]_vars

-----------------------------------------------------------------------------
(* C15 *)

\* c is the directory that "/home" resolves to from root
AtHome(ns, c) ==
    /\ Resolve(ns, 0, HomePath) = FoundOk(c)
    /\ IsDir(ns, c)

\* the names of the child mapping of directory c
Names(ns, c) == DOMAIN ns[c].children

\* the kind of the child of c under name
KindOf(ns, c, name) == ns[ns[c].children[name]].kind

\* the path pwd prints for c
Printed(ns, c) == CHOOSE path \in pwd(ns, 0, c).out : TRUE

\* when the path pwd prints leads from root to c, a name looked up from c and
\* the printed path followed by the name resolve alike
RelativeAsAbsolute(ns, c) ==
    (pwd(ns, 0, c).res = Ok /\ Resolve(ns, 0, Printed(ns, c)) = FoundOk(c))
        => \A name \in {HomeName, NotesName, DocsName} :
               Resolve(ns, c, name) = Resolve(ns, 0, Printed(ns, c) \o <<"/">> \o name)

\* C15: from the empty store mkdir /home succeeds; cd /home then makes /home
\* the cwd; there creat notes.txt and mkdir /home/docs succeed and fill the
\* child mapping of /home; ls with no operand prints that mapping, and pwd
\* prints /home; rmdir /home/docs and rm notes.txt succeed and empty it again.
\* In every state a name relative to cwd and the absolute path of the same
\* entry resolve alike.
C15_HomeScenario ==
    [][/\ (op' = "mkdir" /\ arg' = Some(HomePath) /\ Names(nodes, 0) = {} /\ cwd = 0)
             => result' = Ok /\ AtHome(nodes', counter') /\ Names(nodes', counter') = {}
       /\ (op' = "cd" /\ arg' = Some(HomePath) /\ Resolve(nodes, 0, HomePath).res = Ok
               /\ IsDir(nodes, Resolve(nodes, 0, HomePath).id))
             => result' = Ok /\ AtHome(nodes', cwd')
       /\ (op' = "creat" /\ arg' = Some(NotesName) /\ AtHome(nodes, cwd) /\ Names(nodes, cwd) = {})
             => /\ result' = Ok
                /\ cwd' = cwd
                /\ Names(nodes', cwd) = {NotesName}
                /\ KindOf(nodes', cwd, NotesName) = "FILE"
       /\ (op' = "mkdir" /\ arg' = Some(DocsPath) /\ AtHome(nodes, cwd)
               /\ Names(nodes, cwd) = {NotesName})
             => /\ result' = Ok
                /\ cwd' = cwd
                /\ Names(nodes', cwd) = {NotesName, DocsName}
                /\ KindOf(nodes', cwd, DocsName) = "DIR"
       /\ (op' = "ls" /\ arg' = None /\ AtHome(nodes, cwd))
             => result' = Ok /\ out' = Names(nodes, cwd) /\ store' = store
       /\ (op' = "pwd" /\ AtHome(nodes, cwd))
             => result' = Ok /\ out' = {HomePath} /\ store' = store
       /\ (op' = "rmdir" /\ arg' = Some(DocsPath) /\ AtHome(nodes, cwd)
               /\ Names(nodes, cwd) = {NotesName, DocsName}
               /\ KindOf(nodes, cwd, DocsName) = "DIR"
               /\ Names(nodes, nodes[cwd].children[DocsName]) = {})
             => result' = Ok /\ cwd' = cwd /\ Names(nodes', cwd) = {NotesName}
       /\ (op' = "rm" /\ arg' = Some(NotesName) /\ AtHome(nodes, cwd)
               /\ Names(nodes, cwd) = {NotesName}
               /\ KindOf(nodes, cwd, NotesName) = "FILE")
             => result' = Ok /\ cwd' = cwd /\ Names(nodes', cwd) = {}
       /\ RelativeAsAbsolute(nodes', cwd')]_vars

\* the run has come to its end: in /home, after notes.txt and docs were
\* created there and removed again, ls has just printed nothing
C15_Witness ==
    /\ op = "ls"
    /\ arg = None
    /\ result = Ok
    /\ out = {}
    /\ AtHome(nodes, cwd)
    /\ \E f, d \in DOMAIN nodes :
           /\ nodes[f] = new_file_node(NotesName, cwd)
           /\ nodes[d] = new_dir_node(DocsName, cwd)

-----------------------------------------------------------------------------
(* C16 *)

\* C16: the command rmdir / is turned away with "cannot remove root
\* directory", whether root has children or not, and leaves nodes, counter
\* and cwd as they were.
C16_RootOperandRefused ==
    [][(op' = "rmdir" /\ arg' = Some(<<"/">>))
          => result' = "cannot remove root directory" /\ store' = store]_vars

\* rmdir / has just been turned away on a root that has a child, from below
C16_Witness ==
    /\ op = "rmdir"
    /\ arg = Some(<<"/">>)
    /\ result = "cannot remove root directory"
    /\ Names(nodes, 0) # {}
    /\ cwd # 0

-----------------------------------------------------------------------------
(* C17 *)

\* C17: cd leaves nodes and counter as they were; with no operand it succeeds
\* and sets cwd to 0; with the empty string it succeeds and keeps cwd; with a
\* path that resolves to a Directory it succeeds and sets cwd to that id; with
\* any other path it fails and keeps cwd.
C17_CdSetsCwdOnly ==
    [][op' = "cd"
          => /\ nodes' = nodes
             /\ counter' = counter
             /\ IF arg' = None THEN result' = Ok /\ cwd' = 0
                ELSE IF Unwrap(arg') = <<>> THEN result' = Ok /\ cwd' = cwd
                ELSE LET found == Resolve(nodes, cwd, Unwrap(arg'))
                     IN  IF found.res = Ok /\ IsDir(nodes, found.id)
                         THEN result' = Ok /\ cwd' = found.id
                         ELSE result' # Ok /\ cwd' = cwd]_vars

\* cd has just gone one directory down through a relative path, from a
\* directory that is not root
C17_Witness ==
    /\ op = "cd"
    /\ result = Ok
    /\ arg # None
    /\ ~starts_with(Unwrap(arg), "/")
    /\ cwd # 0
    /\ nodes[cwd].parent # 0

-----------------------------------------------------------------------------
(* C18 *)

\* C18: pwd succeeds, and the path it prints resolves from root to cwd.
C18_PrintedPathLeadsToCwd ==
    /\ pwd(nodes, counter, cwd).res = Ok
    /\ Resolve(nodes, 0, Printed(nodes, cwd)) = FoundOk(cwd)

-----------------------------------------------------------------------------
(* C19 *)

\* C19: every entry name -> id of a child mapping belongs to a Directory and
\* refers to a node of the store that has this name and this Directory as
\* its parent.
C19_EntriesMatchNodes ==
    \A e \in Entries(nodes) :
        /\ IsDir(nodes, e[1])
        /\ e[3] \in DOMAIN nodes
        /\ nodes[e[3]].name = e[2]
        /\ nodes[e[3]].parent = e[1]

\* a reload has just rebuilt a store with a directory below a directory
C19_Witness ==
    /\ op = "reload"
    /\ result = Ok
    /\ \E e \in Entries(nodes) : e[1] # 0

-----------------------------------------------------------------------------
(* C20 *)

\* C20: no id of the store is above the counter, before and after every step,
\* and a successful mkdir or creat adds one node, under an id the store did
\* not have, and keeps the name, kind and parent of every other node.
C20_CreationUnderFreshId ==
    [][/\ \A id \in DOMAIN nodes : id <= counter
       /\ \A id \in DOMAIN nodes' : id <= counter'
       /\ (op' \in {"mkdir", "creat"} /\ result' = Ok)
             => /\ \E k \in DOMAIN nodes' \ DOMAIN nodes :
                       DOMAIN nodes' = DOMAIN nodes \cup {k}
                /\ \A id \in DOMAIN nodes :
                       /\ nodes'[id].name = nodes[id].name
                       /\ nodes'[id].kind = nodes[id].kind
                       /\ nodes'[id].parent = nodes[id].parent]_vars

\* creat has just added a node to a store that is ahead of its snapshot
C20_Witness ==
    /\ op = "creat"
    /\ result = Ok
    /\ disk # None
    /\ counter = Cardinality(DOMAIN nodes) - 1
    /\ counter > parse_usize(Tokens(read_line(Unwrap(disk), 1))[1])

-----------------------------------------------------------------------------
(* C21 *)

\* C21: an rmdir whose operand resolves to the root directory, from root or
\* from cwd, does not return success.
C21_RootNeverRemoved ==
    [][(op' = "rmdir" /\ Resolve(nodes, cwd, Unwrap(arg')) = FoundOk(0))
          => result' # Ok]_vars

====
